---------------------------- MODULE Spec2Model ----------------------------
(***************************************************************************)
(* Model of awx/ui_next/src/screens/Inventory/shared/InventorySourceForm.jsx *)
(*                                                                         *)
(* JavaScript values are encoded as strings so that any two of them can be *)
(* compared: a JS string is itself, every other value is written between   *)
(* angle brackets ("<null>", "<undefined>", "<true>", "<0>", "<cred:1>").  *)
(* An optional object (the `source` prop, the fetched options, the config  *)
(* list) is a sequence of length 0 (null / undefined) or 1 (the object).   *)
(***************************************************************************)
EXTENDS Integers, Sequences, FiniteSets, TLC

VARIABLES
    source,                 \* prop `source`: <<>> or <<entity record>>
    custom_virtualenvs,     \* ConfigContext value: <<>> or <<list of paths>>
    isSourceOptionsLoading, \* useRequest: isLoading
    sourceOptionsError,     \* useRequest: error
    sourceOptions,          \* useRequest: result, <<>> or <<choices list>>
    requestCount,           \* number of readOptions() calls issued so far
    completions,            \* number of those calls that have settled
    effectPending,          \* the useEffect of line 233 is scheduled to run
    values,                 \* Formik: values
    initialValues,          \* Formik: initialValues (as seen by useFormikContext)
    touched,                \* Formik: touched
    errors,                 \* Formik: errors
    lastEvent,              \* what the last step did: a reset branch, a submit, or none
    onSubmitCalls           \* calls of the `onSubmit` prop made by the last step

vars == <<source, custom_virtualenvs, isSourceOptionsLoading, sourceOptionsError,
          sourceOptions, requestCount, completions, effectPending, values,
          initialValues, touched, errors, lastEvent, onSubmitCalls>>

loaderVars == <<isSourceOptionsLoading, sourceOptionsError, sourceOptions,
                requestCount, completions>>

propVars == <<source, custom_virtualenvs>>

-----------------------------------------------------------------------------
(* JavaScript values *)

Null == "<null>"
Undefined == "<undefined>"
True == "<true>"
False == "<false>"
Zero == "<0>"
One == "<1>"
Two == "<2>"

Falsy == {"", Null, Undefined, False, Zero}

\* a || b
JsOr(a, b) == IF a \in Falsy THEN b ELSE a

\* source?.field
OptField(src, field) ==
    IF Len(src) = 0 THEN Undefined
    ELSE IF field \in DOMAIN src[1] THEN src[1][field]
    ELSE Undefined

\* source?.summary_fields?.field
OptSummaryField(src, field) ==
    IF Len(src) = 0 THEN Undefined
    ELSE IF "summary_fields" \notin DOMAIN src[1] THEN Undefined
    ELSE IF field \in DOMAIN src[1].summary_fields
         THEN src[1].summary_fields[field]
    ELSE Undefined

-----------------------------------------------------------------------------
(* Bounds of the model *)

MaxRequests == 2    \* readOptions() calls a behaviour may issue
MaxChoices == 3     \* length of the fetched source-choice list (SpecChoices)
MaxVenvs == 3       \* length of the configured environment list (SpecVenv)

-----------------------------------------------------------------------------
(* Inputs *)

\* An inventory source as the API returns it: every field present.
Ec2Source ==
    [name |-> "aws", description |-> "notes", source |-> "ec2",
     custom_virtualenv |-> "/venv/a/", group_by |-> "region",
     instance_filters |-> "tag:env=prod", overwrite |-> True,
     overwrite_vars |-> False, source_path |-> "",
     source_regions |-> "us-east-1", source_vars |-> "---\nk: v",
     update_cache_timeout |-> "<5>", update_on_launch |-> True,
     update_on_project_update |-> False, verbosity |-> Two,
     summary_fields |-> [credential |-> "<cred:1>"]]

ScmSource ==
    [name |-> "repo", description |-> "", source |-> "scm",
     custom_virtualenv |-> Null, group_by |-> "",
     instance_filters |-> "", overwrite |-> False,
     overwrite_vars |-> True, source_path |-> "inventories/hosts",
     source_regions |-> "", source_vars |-> "---",
     update_cache_timeout |-> Zero, update_on_launch |-> False,
     update_on_project_update |-> True, verbosity |-> Zero,
     summary_fields |-> [source_project |-> "<project:1>"]]

\* A source of type "file" (created by an inventory import), fields missing.
FileSource == [name |-> "imported", source |-> "file"]

Sources == {<<>>, <<Ec2Source>>, <<ScmSource>>, <<FileSource>>}

Choices ==
    <<<<"ec2", "Amazon EC2">>, <<"file", "File, Directory or Script">>,
      <<"scm", "Sourced from a Project">>>>

ChoicePairs ==
    {<<"ec2", "Amazon EC2">>, <<"file", "File, Directory or Script">>,
     <<"scm", "Sourced from a Project">>}

SeqsUpTo(S, n) == UNION {[1..k -> S] : k \in 0..n}

AllChoiceLists == SeqsUpTo(ChoicePairs, MaxChoices)

VenvPaths == {"/venv/ansible/", "/venv/a/", "/venv/b/"}

AllVenvConfigs == {<<>>} \cup {<<l>> : l \in SeqsUpTo(VenvPaths, MaxVenvs)}

MainVenvConfig == <<<<"/venv/ansible/", "/venv/a/">>>>

NameInputs == {"", "web"}
DescriptionInputs == {"", "notes"}
BlurFields == {"name", "source"}
SubFormEdits ==
    {<<"credential", "<cred:2>">>, <<"credential", Null>>,
     <<"overwrite", True>>, <<"overwrite", False>>,
     <<"verbosity", Two>>, <<"verbosity", One>>}

-----------------------------------------------------------------------------
(* InventorySourceForm: initial values, lines 199-218 *)

InitialValues(src) ==
    [credential |-> JsOr(OptSummaryField(src, "credential"), Null),
     custom_virtualenv |-> JsOr(OptField(src, "custom_virtualenv"), ""),
     description |-> JsOr(OptField(src, "description"), ""),
     group_by |-> JsOr(OptField(src, "group_by"), ""),
     instance_filters |-> JsOr(OptField(src, "instance_filters"), ""),
     name |-> JsOr(OptField(src, "name"), ""),
     overwrite |-> JsOr(OptField(src, "overwrite"), False),
     overwrite_vars |-> JsOr(OptField(src, "overwrite_vars"), False),
     source |-> JsOr(OptField(src, "source"), ""),
     source_path |->
         IF OptField(src, "source_path") = "" THEN "/ (project root)" ELSE "",
     source_project |-> JsOr(OptSummaryField(src, "source_project"), Null),
     source_regions |-> JsOr(OptField(src, "source_regions"), ""),
     source_script |-> JsOr(OptSummaryField(src, "source_script"), Null),
     source_vars |-> JsOr(OptField(src, "source_vars"), "---\n"),
     update_cache_timeout |-> JsOr(OptField(src, "update_cache_timeout"), Zero),
     update_on_launch |-> JsOr(OptField(src, "update_on_launch"), False),
     update_on_project_update |->
         JsOr(OptField(src, "update_on_project_update"), False),
     verbosity |-> JsOr(OptField(src, "verbosity"), One)]

Fields == DOMAIN InitialValues(<<>>)


-----------------------------------------------------------------------------
(* Source selector, lines 39-44 and 125-140 *)

MapChoices(choices) ==
    [i \in 1..Len(choices) |->
        [label |-> choices[i][2], key |-> choices[i][1], value |-> choices[i][1]]]

RECURSIVE FilterNotFile(_)
FilterNotFile(sourceChoices) ==
    IF sourceChoices = <<>> THEN <<>>
    ELSE IF Head(sourceChoices).key # "file"
         THEN <<Head(sourceChoices)>> \o FilterNotFile(Tail(sourceChoices))
    ELSE FilterNotFile(Tail(sourceChoices))

buildSourceChoiceOptions_keepFile(options) == MapChoices(options)

buildSourceChoiceOptions(options) == FilterNotFile(MapChoices(options))

sourceSelectData(options) ==
    <<[value |-> "", key |-> "", label |-> "Choose a source", isDisabled |-> TRUE]>>
        \o buildSourceChoiceOptions(options)

IsDisabled(option) == "isDisabled" \in DOMAIN option /\ option.isDisabled

\* the values a user can pick in a select rendered from `data`
Selectable(data) == {data[i].value : i \in {j \in 1..Len(data) : ~IsDisabled(data[j])}}

-----------------------------------------------------------------------------
(* Environment selector, lines 57-63 and 142-163 *)

defaultVenv ==
    [label |-> "Use Default Ansible Environment", value |-> "/venv/ansible/",
     key |-> "default"]

RECURSIVE FilterNotDefault(_)
FilterNotDefault(venvs) ==
    IF venvs = <<>> THEN <<>>
    ELSE IF Head(venvs) # defaultVenv.value
         THEN <<Head(venvs)>> \o FilterNotDefault(Tail(venvs))
    ELSE FilterNotDefault(Tail(venvs))

venvSelectShown(config) == Len(config) = 1 /\ Len(config[1]) > 1

venvSelectData_noFilter(venvs) ==
    <<defaultVenv>> \o
        [i \in 1..Len(venvs) |-> [value |-> venvs[i], label |-> venvs[i], key |-> venvs[i]]]

venvSelectData(venvs) ==
    <<defaultVenv>> \o
        [i \in 1..Len(FilterNotDefault(venvs)) |->
            [value |-> FilterNotDefault(venvs)[i],
             label |-> FilterNotDefault(venvs)[i],
             key |-> FilterNotDefault(venvs)[i]]]

-----------------------------------------------------------------------------
(* Provider sub-sections, lines 164-187 *)

SubForms ==
    [azure_rm |-> "AzureSubForm", cloudforms |-> "CloudFormsSubForm",
     custom |-> "CustomScriptSubForm", ec2 |-> "EC2SubForm",
     gce |-> "GCESubForm", openstack |-> "OpenStackSubForm",
     rhv |-> "VirtualizationSubForm", satellite6 |-> "SatelliteSubForm",
     scm |-> "SCMSubForm", tower |-> "TowerSubForm", vmware |-> "VMwareSubForm"]

\* the SubFormLayout with its "Source details" title is rendered
subFormLayoutShown(sourceValue) == sourceValue # ""

subFormFor_noScm(sourceValue) ==
    IF sourceValue \in DOMAIN SubForms \ {"scm"} THEN {SubForms[sourceValue]} ELSE {}

\* the sub-sections rendered inside it: the object lookup of lines 171-183
subFormFor(sourceValue) ==
    IF sourceValue \in DOMAIN SubForms THEN {SubForms[sourceValue]} ELSE {}

-----------------------------------------------------------------------------
(* What InventorySourceForm renders, lines 237-269 *)

View_noOptionsCheck ==
    IF sourceOptionsError # Null THEN "ContentError"
    ELSE IF isSourceOptionsLoading THEN "ContentLoading"
    ELSE "Form"

View ==
    IF sourceOptionsError # Null THEN "ContentError"
    ELSE IF sourceOptions = <<>> \/ isSourceOptionsLoading THEN "ContentLoading"
    ELSE "Form"

\* sub-sections on screen
VisibleSubForms ==
    IF View = "Form" /\ subFormLayoutShown(values.source)
    THEN subFormFor(values.source) ELSE {}

HeadingShown == View = "Form" /\ subFormLayoutShown(values.source)

-----------------------------------------------------------------------------
(* Field validation, lines 53-56, 107 and 116-122 *)

\* util/validators `required(message)` applied to `value`
required(message, value) ==
    IF value \in {"", Null, Undefined}
    THEN (IF message = Null THEN "This field must not be blank" ELSE message)
    ELSE Undefined

sourceValidate_none(value) == Undefined

\* validate of useField({ name: 'source', ... }), line 55
sourceValidate(value) == required("Set a value for this field", value)

\* validate of the name FormField, line 107
nameValidate(value) == required(Null, value)

\* Formik runs the validators of the registered fields on a values object
Validate(vals) ==
    [name |-> nameValidate(vals.name), source |-> sourceValidate(vals.source)]

NoErrors == [name |-> Undefined, source |-> Undefined]
NotTouched == [f \in Fields |-> FALSE]
AllTouched == [f \in Fields |-> TRUE]

\* FormGroup `validated` of lines 120-122; FormField shows its error alike
ShowsError(field) == touched[field] /\ errors[field] # Undefined

-----------------------------------------------------------------------------
(* resetSubFormFields, lines 65-98 *)

\* line 66
isOriginalType(sourceType) == sourceType = initialValues.source

restoredValues_dropEdits(sourceType) ==
    [initialValues EXCEPT !.source = sourceType]

\* the values object of lines 68-74
restoredValues(sourceType) ==
    [initialValues EXCEPT !.name = values.name,
                          !.description = values.description,
                          !.custom_virtualenv = values.custom_virtualenv,
                          !.source = sourceType]

defaults_keepCredential(sourceType) ==
    [group_by |-> "", instance_filters |-> "", overwrite |-> False,
     overwrite_vars |-> False, source |-> sourceType, source_path |-> "",
     source_project |-> Null, source_regions |-> "", source_script |-> Null,
     source_vars |-> "---\n", update_cache_timeout |-> Zero,
     update_on_launch |-> False, update_on_project_update |-> False,
     verbosity |-> One]

\* lines 77-93
defaults(sourceType) ==
    [credential |-> Null, group_by |-> "", instance_filters |-> "",
     overwrite |-> False, overwrite_vars |-> False, source |-> sourceType,
     source_path |-> "", source_project |-> Null, source_regions |-> "",
     source_script |-> Null, source_vars |-> "---\n",
     update_cache_timeout |-> Zero, update_on_launch |-> False,
     update_on_project_update |-> False, verbosity |-> One]

\* the forEach of lines 94-96: one setFieldValue per key of `writes`
SetFieldValues(vals, writes) ==
    [f \in DOMAIN vals \cup DOMAIN writes |->
        IF f \in DOMAIN writes THEN writes[f] ELSE vals[f]]

\* Formik validates after each setFieldValue.  Each of the calls of one
\* forEach validates the values of the last render with its own field
\* written, or the values as written so far, depending on the Formik build;
\* the validation of the last call decides the errors.
ErrorsAfterBatch(before, after) == {Validate(after), Validate(before)}

resetSubFormFields(sourceType) ==
    IF isOriginalType(sourceType)
    THEN \* resetForm({ values }): values become the new initial values,
         \* errors and touched are cleared
         /\ values' = restoredValues(sourceType)
         /\ initialValues' = restoredValues(sourceType)
         /\ touched' = NotTouched
         /\ errors' = NoErrors
         /\ lastEvent' = "restore"
    ELSE /\ values' = SetFieldValues(values, defaults(sourceType))
         /\ errors' \in ErrorsAfterBatch(values, values')
         /\ lastEvent' = "defaults"
         /\ UNCHANGED <<initialValues, touched>>

-----------------------------------------------------------------------------
(* Options loading, lines 220-235 *)

FetchSourceOptionsChanges_eachRender == TRUE

\* whether a re-render hands the effect of line 233 a new fetchSourceOptions:
\* the request callback is memoised with no dependencies (lines 226-229)
FetchSourceOptionsChanges == FALSE

\* a state change re-renders the component; the effect runs again when its
\* dependency changed
Rerender == effectPending' = (effectPending \/ FetchSourceOptionsChanges)

formVars == <<values, initialValues, touched, errors, lastEvent, onSubmitCalls>>

\* useEffect(() => { fetchSourceOptions(); }, [fetchSourceOptions])
RunEffect ==
    /\ effectPending
    /\ requestCount < MaxRequests
    /\ isSourceOptionsLoading' = TRUE
    /\ requestCount' = requestCount + 1
    /\ effectPending' = FetchSourceOptionsChanges
    /\ UNCHANGED <<sourceOptionsError, sourceOptions, completions>>
    /\ UNCHANGED formVars
    /\ UNCHANGED propVars

\* InventorySourcesAPI.readOptions() resolves with `data`
ResolveFrom(payloads) ==
    \E data \in payloads :
        /\ completions < requestCount
        /\ sourceOptions' = <<data>>
        /\ sourceOptionsError' = Null
        /\ isSourceOptionsLoading' = FALSE
        /\ completions' = completions + 1
        /\ Rerender
        /\ UNCHANGED requestCount
        /\ UNCHANGED formVars
        /\ UNCHANGED propVars

\* InventorySourcesAPI.readOptions() rejects
Reject ==
    /\ completions < requestCount
    /\ sourceOptions' = <<>>
    /\ sourceOptionsError' = "<Error>"
    /\ isSourceOptionsLoading' = FALSE
    /\ completions' = completions + 1
    /\ Rerender
    /\ UNCHANGED requestCount
    /\ UNCHANGED formVars
    /\ UNCHANGED propVars

-----------------------------------------------------------------------------
(* User events on the rendered form *)

\* Formik handleChange of one field: write it and validate
HandleChange(field, value) ==
    /\ values' = [values EXCEPT ![field] = value]
    /\ errors' = Validate(values')
    /\ lastEvent' = "none"
    /\ onSubmitCalls' = <<>>
    /\ Rerender
    /\ UNCHANGED <<initialValues, touched>>
    /\ UNCHANGED loaderVars
    /\ UNCHANGED propVars

\* FormField name, lines 102-109
EditName ==
    \E v \in NameInputs :
        /\ View = "Form"
        /\ v # values.name
        /\ HandleChange("name", v)

\* FormField description, lines 110-115
EditDescription ==
    \E v \in DescriptionInputs :
        /\ View = "Form"
        /\ v # values.description
        /\ HandleChange("description", v)

\* AnsibleSelect source: onChange of lines 137-139
SelectSource ==
    /\ View = "Form"
    /\ \E sourceType \in Selectable(sourceSelectData(sourceOptions[1])) :
            /\ sourceType # values.source
            /\ resetSubFormFields(sourceType)
    /\ onSubmitCalls' = <<>>
    /\ Rerender
    /\ UNCHANGED loaderVars
    /\ UNCHANGED propVars

\* the option a select shows for `value`: the first one when none matches
Displayed(data, value) ==
    IF \E i \in 1..Len(data) : data[i].value = value THEN value ELSE data[1].value

\* AnsibleSelect custom-virtualenv, lines 152-161
SelectVenv ==
    \E v \in VenvPaths :
        /\ View = "Form"
        /\ venvSelectShown(custom_virtualenvs)
        /\ v \in Selectable(venvSelectData(custom_virtualenvs[1]))
        /\ v # Displayed(venvSelectData(custom_virtualenvs[1]), values.custom_virtualenv)
        /\ HandleChange("custom_virtualenv", v)

\* an input of the visible provider sub-section
EditSubFormField ==
    \E edit \in SubFormEdits :
        /\ VisibleSubForms # {}
        /\ edit[2] # values[edit[1]]
        /\ HandleChange(edit[1], edit[2])

\* Formik handleBlur: mark the field touched and validate
Blur ==
    \E field \in BlurFields :
        /\ View = "Form"
        /\ touched' = [touched EXCEPT ![field] = TRUE]
        /\ errors' = Validate(values)
        /\ lastEvent' = "none"
        /\ onSubmitCalls' = <<>>
        /\ Rerender
        /\ UNCHANGED <<values, initialValues>>
        /\ UNCHANGED loaderVars
        /\ UNCHANGED propVars

\* onSubmit of the Formik element, lines 248-250: the calls of the prop
onSubmit(vals) == <<vals>>

\* formik.handleSubmit, lines 253 and 263: touch every field, validate, and
\* call onSubmit when no validator reports an error
Submit ==
    /\ View = "Form"
    /\ touched' = AllTouched
    /\ errors' = Validate(values)
    /\ onSubmitCalls' = IF errors' = NoErrors THEN onSubmit(values) ELSE <<>>
    /\ lastEvent' = "submit"
    /\ Rerender
    /\ UNCHANGED <<values, initialValues>>
    /\ UNCHANGED loaderVars
    /\ UNCHANGED propVars

-----------------------------------------------------------------------------
(* Specifications *)

InitWith(sources, configs) ==
    /\ source \in sources
    /\ custom_virtualenvs \in configs
    /\ isSourceOptionsLoading = FALSE
    /\ sourceOptionsError = Null
    /\ sourceOptions = <<>>
    /\ requestCount = 0
    /\ completions = 0
    /\ effectPending = TRUE
    /\ values = InitialValues(source)
    /\ initialValues = InitialValues(source)
    /\ touched = NotTouched
    /\ errors = NoErrors
    /\ lastEvent = "none"
    /\ onSubmitCalls = <<>>

Init == InitWith(Sources, {MainVenvConfig})

Next ==
    \/ RunEffect
    \/ ResolveFrom({Choices})
    \/ Reject
    \/ EditName
    \/ EditDescription
    \/ SelectSource
    \/ SelectVenv
    \/ EditSubFormField
    \/ Blur
    \/ Submit

Spec == Init /\ [][Next]_vars

\* every fetched choice list, a new source, the source selector
InitChoices == InitWith({<<>>, <<Ec2Source>>}, {MainVenvConfig})

NextChoices ==
    \/ RunEffect
    \/ ResolveFrom(AllChoiceLists)
    \/ Reject
    \/ SelectSource

SpecChoices == InitChoices /\ [][NextChoices]_vars

\* every configured environment list, the environment selector
InitVenv == InitWith({<<>>, <<Ec2Source>>}, AllVenvConfigs)

NextVenv ==
    \/ RunEffect
    \/ ResolveFrom({Choices})
    \/ Reject
    \/ SelectVenv

SpecVenv == InitVenv /\ [][NextVenv]_vars

-----------------------------------------------------------------------------
(* Properties *)

PreservedFields == {"name", "description", "custom_virtualenv"}

DeclaredFields ==
    {"credential", "custom_virtualenv", "description", "group_by",
     "instance_filters", "name", "overwrite", "overwrite_vars", "source",
     "source_path", "source_project", "source_regions", "source_script",
     "source_vars", "update_cache_timeout", "update_on_launch",
     "update_on_project_update", "verbosity"}

\* the source type of the entity the form was opened for
OriginalType == InitialValues(source).source

\* a step in which the user selects another source type
SourceTypeChanges == values'.source # values.source

\* C1: selecting a source type other than the original one sets the fifteen
\* listed fields to their fixed defaults (source to the selected type) and
\* leaves name, description and custom_virtualenv as they were before the
\* selection; the values object keeps exactly the declared fields.
C1_ResetToDefaults ==
    [][(SourceTypeChanges /\ values'.source # OriginalType) =>
          /\ values'.credential = Null
          /\ values'.group_by = ""
          /\ values'.instance_filters = ""
          /\ values'.overwrite = False
          /\ values'.overwrite_vars = False
          /\ values'.source_path = ""
          /\ values'.source_project = Null
          /\ values'.source_regions = ""
          /\ values'.source_script = Null
          /\ values'.source_vars = "---\n"
          /\ values'.update_cache_timeout = Zero
          /\ values'.update_on_launch = False
          /\ values'.update_on_project_update = False
          /\ values'.verbosity = One
          /\ \A f \in PreservedFields : values'[f] = values[f]
          /\ DOMAIN values' = DeclaredFields]_vars

\* an edited existing EC2 source switched to SCM: its provider fields, which
\* held other values, are at the defaults and the edits of name,
\* description and environment are kept
C1_Witness ==
    /\ source = <<Ec2Source>>
    /\ lastEvent = "defaults"
    /\ values.source = "scm"
    /\ values.credential = Null
    /\ values.name = "web"
    /\ values.description = ""
    /\ values.custom_virtualenv = "/venv/ansible/"

\* C2: after any sequence of type changes and edits, selecting the original
\* source type again puts every field back to its initial value, except
\* name, description and custom_virtualenv, which keep their current values.
C2_RestoreOriginal ==
    [][(SourceTypeChanges /\ values'.source = OriginalType) =>
          /\ \A f \in DeclaredFields \ PreservedFields :
                 values'[f] = InitialValues(source)[f]
          /\ \A f \in PreservedFields : values'[f] = values[f]
          /\ DOMAIN values' = DeclaredFields]_vars

\* the original type was selected again and the edited name, description and
\* environment differ from the initial ones while the credential is back
C2_Witness ==
    /\ source = <<Ec2Source>>
    /\ lastEvent = "restore"
    /\ values.source = "ec2"
    /\ values.credential = "<cred:1>"
    /\ values.name = "web"
    /\ values.description = ""
    /\ values.custom_virtualenv = "/venv/ansible/"

NotFile(pair) == pair[1] # "file"

\* C3: whatever choice list the options fetch returned, the source selector
\* offers the disabled empty placeholder first, then every (code, label)
\* pair of the list whose code is not "file", in list order, and never a
\* selectable "file".
C3_ChoicesWithoutFile ==
    View = "Form" =>
        LET data == sourceSelectData(sourceOptions[1])
            kept == SelectSeq(sourceOptions[1], NotFile)
        IN  /\ data[1].value = ""
            /\ IsDisabled(data[1])
            /\ "file" \notin Selectable(data)
            /\ Len(data) = Len(kept) + 1
            /\ \A i \in 1..Len(kept) :
                   /\ data[i + 1].value = kept[i][1]
                   /\ data[i + 1].label = kept[i][2]
                   /\ ~IsDisabled(data[i + 1])

\* the list held "file" between two other codes and the user picked the one
\* offered after it
C3_Witness ==
    /\ View = "Form"
    /\ Len(sourceOptions[1]) = 3
    /\ sourceOptions[1][1][1] = "ec2"
    /\ sourceOptions[1][2][1] = "file"
    /\ sourceOptions[1][3][1] = "scm"
    /\ values.source = "scm"

\* the state of the options request
Phase ==
    IF sourceOptionsError # Null THEN "error"
    ELSE IF isSourceOptionsLoading THEN "loading"
    ELSE IF sourceOptions # <<>> THEN "ready"
    ELSE "idle"

\* C4: the options request goes idle -> loading -> error or ready; the form
\* is rendered exactly in ready, the error indicator exactly in error, and
\* nothing leaves error.
C4_LoadingStateMachine ==
    /\ [](View = "Form" <=> Phase = "ready")
    /\ [](View = "ContentError" <=> Phase = "error")
    /\ [][Phase' # Phase =>
            <<Phase, Phase'>> \in {<<"idle", "loading">>, <<"loading", "error">>,
                                   <<"loading", "ready">>}]_vars
    /\ [][Phase = "error" => Phase' = "error" /\ View' = "ContentError"]_vars

\* the fetch was rejected: the error indicator is on screen
C4_Witness ==
    /\ requestCount = 1
    /\ completions = 1
    /\ Phase = "error"
    /\ View = "ContentError"

\* C5: a submit with no source type selected calls onSubmit not at all and
\* leaves the source field showing its validation error; a submit with
\* source type and name set calls onSubmit exactly once, with the current
\* values, whose keys are exactly the declared fields.
C5_Submit ==
    lastEvent = "submit" =>
        /\ values.source = "" =>
               /\ onSubmitCalls = <<>>
               /\ ShowsError("source")
               /\ errors.source = "Set a value for this field"
        /\ (values.source # "" /\ values.name # "") =>
               /\ onSubmitCalls = <<values>>
               /\ DOMAIN onSubmitCalls[1] = DeclaredFields

\* an existing EC2 source, switched to SCM and edited, was submitted
C5_Witness ==
    /\ source = <<Ec2Source>>
    /\ lastEvent = "submit"
    /\ values.source = "scm"
    /\ values.name = "web"
    /\ values.verbosity = Two
    /\ onSubmitCalls = <<values>>

ElevenCodes ==
    {"azure_rm", "cloudforms", "custom", "ec2", "gce", "openstack", "rhv",
     "satellite6", "scm", "tower", "vmware"}

\* C6 as stated: no sub-section while the source type is unset, and exactly
\* one of the eleven, the one keyed by the source type, whenever it is set.
C6_ExactlyOneSubForm ==
    View = "Form" =>
        /\ values.source = "" => VisibleSubForms = {}
        /\ values.source # "" =>
               /\ Cardinality(VisibleSubForms) = 1
               /\ values.source \in ElevenCodes
               /\ VisibleSubForms = {SubForms[values.source]}

\* C6 amended: no heading and no sub-section while the source type is unset;
\* the heading with exactly the sub-section keyed by the source type when it
\* is one of the eleven codes; the heading with no sub-section for any other
\* source type.
C6_SubFormByCode ==
    View = "Form" =>
        /\ values.source = "" => ~HeadingShown /\ VisibleSubForms = {}
        /\ values.source \in ElevenCodes =>
               /\ HeadingShown
               /\ VisibleSubForms = {SubForms[values.source]}
        /\ values.source \notin ElevenCodes \cup {""} =>
               /\ HeadingShown
               /\ VisibleSubForms = {}

\* a source of type "file" is being edited: heading, no sub-section
C6_Witness ==
    /\ View = "Form"
    /\ values.source = "file"
    /\ HeadingShown
    /\ VisibleSubForms = {}

EmptyDefaults ==
    [credential |-> Null, custom_virtualenv |-> "", description |-> "",
     group_by |-> "", instance_filters |-> "", name |-> "",
     overwrite |-> False, overwrite_vars |-> False, source |-> "",
     source_path |-> "", source_project |-> Null, source_regions |-> "",
     source_script |-> Null, source_vars |-> "---\n",
     update_cache_timeout |-> Zero, update_on_launch |-> False,
     update_on_project_update |-> False, verbosity |-> One]

\* the entity's value of a form field, Undefined when it has none
EntityValue(src, field) ==
    IF field \in {"credential", "source_project", "source_script"}
    THEN OptSummaryField(src, field)
    ELSE OptField(src, field)

\* C7: at mount every form field holds the entity's value of it (credential,
\* source_project and source_script from the summary fields), or the empty
\* default when the entity or the field is missing.
C7_SeededFromEntity ==
    requestCount = 0 =>
        \A f \in DeclaredFields :
            values[f] = IF EntityValue(source, f) \in {Undefined, Null}
                        THEN EmptyDefaults[f]
                        ELSE EntityValue(source, f)

NotDefaultPath(path) == path # "/venv/ansible/"

\* C8: no environment selector when the configured list is missing or has
\* at most one entry; otherwise the selector offers the default option
\* ("/venv/ansible/") first and then every configured path other than the
\* default path, so the default path is offered once; a selection writes
\* the chosen option's value to custom_virtualenv.
C8_EnvironmentSelector ==
    /\ [](/\ (Len(custom_virtualenvs) = 0 \/ Len(custom_virtualenvs[1]) <= 1)
                 => ~venvSelectShown(custom_virtualenvs)
          /\ (Len(custom_virtualenvs) = 1 /\ Len(custom_virtualenvs[1]) >= 2)
                 => /\ venvSelectShown(custom_virtualenvs)
                    /\ LET data == venvSelectData(custom_virtualenvs[1])
                           others == SelectSeq(custom_virtualenvs[1], NotDefaultPath)
                       IN  /\ data[1].value = "/venv/ansible/"
                           /\ Len(data) = Len(others) + 1
                           /\ \A i \in 1..Len(others) : data[i + 1].value = others[i]
                           /\ Cardinality({i \in 1..Len(data) :
                                  data[i].value = "/venv/ansible/"}) = 1)
    /\ [][values'.custom_virtualenv # values.custom_virtualenv =>
            /\ venvSelectShown(custom_virtualenvs)
            /\ \E i \in 1..Len(venvSelectData(custom_virtualenvs[1])) :
                   values'.custom_virtualenv =
                       venvSelectData(custom_virtualenvs[1])[i].value
            /\ \A f \in DeclaredFields \ {"custom_virtualenv"} :
                   values'[f] = values[f]]_vars

\* the configured list names the default path itself and the user, coming
\* from another environment, selected the default option
C8_Witness ==
    /\ View = "Form"
    /\ source = <<Ec2Source>>
    /\ custom_virtualenvs = <<<<"/venv/a/", "/venv/ansible/", "/venv/b/">>>>
    /\ values.custom_virtualenv = "/venv/ansible/"

\* C9: right after a source-type change, on either branch of the reset, no
\* field shows an error: the user has touched and validated none since.
C9_NoErrorShownAfterChange ==
    lastEvent \in {"restore", "defaults"} =>
        \A f \in {"name", "source"} : ~ShowsError(f)

\* C10: one options request per mount, issued by the mount effect and never
\* again, settled at most once; whenever the form or the error indicator is
\* on screen exactly one request was issued and has settled; and the state
\* a type change leaves holds the whole batch of default writes.
C10_OneRequestPerMount ==
    /\ requestCount <= 1
    /\ completions <= requestCount
    /\ ~effectPending <=> requestCount = 1
    /\ View \in {"Form", "ContentError"} => requestCount = 1 /\ completions = 1
    /\ lastEvent = "defaults" =>
           \A f \in DeclaredFields \ (PreservedFields \cup {"source"}) :
               values[f] = EmptyDefaults[f]

\* after a type change, an edit and a successful submit there has still been
\* one request
C10_Witness ==
    /\ lastEvent = "submit"
    /\ onSubmitCalls # <<>>
    /\ values.source # OriginalType
    /\ values.name # InitialValues(source).name
    /\ requestCount = 1
    /\ completions = 1

=============================================================================
